---- MODULE Spec2Model ----
(***************************************************************************)
(* Model of rs-names2stats2arrow-ipc-stream: the Column Builder, the       *)
(* function lines2batch and the iterator Lines2BatchIter (src/src/lib.rs). *)
(* One step of Spec is one whole call of Lines2BatchIter::next.  MainSpec   *)
(* is the program: main of src/src/bin/names2stats2arrow-ipc-stream.rs.    *)
(***************************************************************************)
EXTENDS Integers, Sequences, FiniteSets, TLC

\* ---------------------------------------------------------------- bounds
MaxLines == 4
MaxBatchSize == 2
MaxCalls == 5
MaxEntries == 2

VARIABLES lines, batch_size, bldr, results, input, unix, pc, written

vars == <<lines, batch_size, bldr, results, input, unix, pc, written>>

\* ------------------------------------------------------- Option<T> values
\* None is the empty tuple, Some(v) the one-element tuple <<v>>.
None == <<>>

Some(v) == <<v>>

\* ------------------------------------------------------------- the inputs
\* What one poll of the line source returns: Some(Ok(line)), Some(Err(e)) or
\* None.  The source is any Iterator: nothing makes it fused, so a None may
\* be followed by further items.
OkLine(s) == [kind |-> "line", line |-> s]

ErrLine == [kind |-> "err", line |-> ""]

NoLine == [kind |-> "none", line |-> ""]

\* The paths of the modelled file system: "a" is a regular file, "b" a
\* directory modified half a second before the epoch, "e" a symlink modified
\* within the first second after the epoch, "m" a file whose modification
\* time cannot be read, "x" does not exist, and "" is the empty path, which
\* stat never resolves.
Paths == {"a", "b", "e", "m", "x", ""}

Items == {OkLine(p) : p \in Paths} \cup {ErrLine, NoLine}

RECURSIVE SeqsUpTo(_, _)
SeqsUpTo(S, n) ==
    IF n = 0 THEN {<<>>}
    ELSE LET shorter == SeqsUpTo(S, n - 1)
         IN  shorter \cup {Append(s, x) : s \in {t \in shorter : Len(t) = n - 1}, x \in S}

\* std::fs::metadata(p): the Metadata of the entry, or an io::Error.
NoMeta == [ok |-> FALSE, file_type |-> "unspecified", read_only |-> FALSE,
           mode |-> 0, nlink |-> 0, len |-> 0, uid |-> 0, gid |-> 0,
           modified |-> [ok |-> FALSE, secs |-> 0, nanos |-> 0]]

\* modified is the result of Metadata::modified(): a SystemTime of tv_sec whole
\* seconds (an i64, negative before the epoch) plus tv_nsec nanoseconds in
\* 0..999999999, or an io::Error.
path2meta(p) ==
    CASE p = "a" -> [ok |-> TRUE, file_type |-> "file", read_only |-> FALSE,
                     mode |-> 420, nlink |-> 1, len |-> 7, uid |-> 1000, gid |-> 100,
                     modified |-> [ok |-> TRUE, secs |-> 5, nanos |-> 0]]
      [] p = "b" -> [ok |-> TRUE, file_type |-> "dir", read_only |-> TRUE,
                     mode |-> 365, nlink |-> 2, len |-> 0, uid |-> 0, gid |-> 0,
                     modified |-> [ok |-> TRUE, secs |-> -1, nanos |-> 500000000]]
      [] p = "e" -> [ok |-> TRUE, file_type |-> "symlink", read_only |-> FALSE,
                     mode |-> 511, nlink |-> 1, len |-> 4, uid |-> 1000, gid |-> 100,
                     modified |-> [ok |-> TRUE, secs |-> 0, nanos |-> 999999999]]
      [] p = "m" -> [ok |-> TRUE, file_type |-> "file", read_only |-> FALSE,
                     mode |-> 420, nlink |-> 1, len |-> 3, uid |-> 1000, gid |-> 100,
                     modified |-> [ok |-> FALSE, secs |-> 0, nanos |-> 0]]
      [] OTHER -> NoMeta

\* The modification time taken as it stands in the stat record: st_mtime as
\* an i64, with no test against the epoch.
mtime_secs_raw(t) == Some(t.secs)

\* meta.modified()?.duration_since(UNIX_EPOCH).ok().map(|d| d.as_secs() as i64)
\* duration_since fails for a time before the epoch, which is tv_sec < 0 as
\* tv_nsec >= 0; otherwise the Duration holds tv_sec whole seconds and as_secs
\* drops the nanoseconds.  tv_sec is an i64, so the u64 as_secs() never
\* exceeds i64::MAX and `as i64` keeps its value.
mtime_secs(t) == IF t.secs < 0 THEN None ELSE Some(t.secs)

\* ------------------------------------------------------------ the Builder
EmptyBuilder ==
    [path |-> <<>>, file_type |-> <<>>, read_only |-> <<>>, mode |-> <<>>,
     nlink |-> <<>>, len |-> <<>>, uid |-> <<>>, gid |-> <<>>, mtime |-> <<>>]

\* Every slot of an Arrow array is a value or a null: append_value(v) stores
\* Some(v), append_option(o) stores o.
append_path(b, p) == [b EXCEPT !.path = Append(@, Some(p))]

append_type(b, t) == [b EXCEPT !.file_type = Append(@, Some(t))]

append_read_only(b, r) == [b EXCEPT !.read_only = Append(@, Some(r))]

append_mode(b, m) == [b EXCEPT !.mode = Append(@, m)]

append_nlink(b, l) == [b EXCEPT !.nlink = Append(@, l)]

append_len(b, l) == [b EXCEPT !.len = Append(@, Some(l))]

append_uid(b, l) == [b EXCEPT !.uid = Append(@, l)]

append_gid(b, l) == [b EXCEPT !.gid = Append(@, l)]

append_mtime(b, t) == [b EXCEPT !.mtime = Append(@, t)]

\* StringBuilder::values_slice(): the bytes of all appended strings, one
\* after the other (a null slot contributes no bytes).
RECURSIVE values_slice(_)
values_slice(slots) ==
    IF slots = <<>> THEN ""
    ELSE (IF Head(slots) = None THEN "" ELSE Head(slots)[1])
         \o values_slice(Tail(slots))

\* is_empty without its test: the emptiness check of lines2batch never stops
\* a call, so a call that holds no row finishes and assembles all the same.
is_empty_never(b) == FALSE

is_empty(b) == Len(values_slice(b.path)) = 0

finish_path(b) == [b EXCEPT !.path = <<>>]

finish_type(b) == [b EXCEPT !.file_type = <<>>]

finish_read_only(b) == [b EXCEPT !.read_only = <<>>]

finish_mode(b) == [b EXCEPT !.mode = <<>>]

finish_nlink(b) == [b EXCEPT !.nlink = <<>>]

finish_len(b) == [b EXCEPT !.len = <<>>]

finish_uid(b) == [b EXCEPT !.uid = <<>>]

finish_gid(b) == [b EXCEPT !.gid = <<>>]

\* finish_mtime made with finish_cloned: the array is built, the accumulator
\* keeps its entries.
finish_mtime_cloned(b) == b

finish_mtime(b) == [b EXCEPT !.mtime = <<>>]

\* ------------------------------------------------- the schema and batches
\* schema(): the nine fields in order, each with its nullability.
schema ==
    << [name |-> "path", nullable |-> FALSE],
       [name |-> "type", nullable |-> FALSE],
       [name |-> "read_only", nullable |-> FALSE],
       [name |-> "mode", nullable |-> TRUE],
       [name |-> "nlink", nullable |-> TRUE],
       [name |-> "len", nullable |-> FALSE],
       [name |-> "uid", nullable |-> TRUE],
       [name |-> "gid", nullable |-> TRUE],
       [name |-> "mtime", nullable |-> TRUE] >>

\* The vec! with agid and auid in each other's place.
FinishedArrays_swapped(b) ==
    << b.path, b.file_type, b.read_only, b.mode, b.nlink, b.len, b.gid, b.uid,
       b.mtime >>

\* The vec![apath, atype, ...] that lines2batch hands to RecordBatch::try_new:
\* each array is what the finish_* call of its accumulator returns.
FinishedArrays(b) ==
    << b.path, b.file_type, b.read_only, b.mode, b.nlink, b.len, b.uid, b.gid,
       b.mtime >>

\* The nine finish_* calls made with finish_cloned: the arrays are built but
\* the accumulators keep their entries.
FinishAll_cloned(b) == b

FinishAll(b) ==
    finish_mtime(finish_gid(finish_uid(finish_len(finish_nlink(finish_mode(
        finish_read_only(finish_type(finish_path(b)))))))))

\* RecordBatch::try_new(schema, columns): fails unless there is one column
\* per field, all columns have the same length, and no column of a
\* non-nullable field holds a null.
try_new(sch, columns) ==
    /\ Len(columns) = Len(sch)
    /\ \A i \in 1..Len(columns) : Len(columns[i]) = Len(columns[1])
    /\ \A i \in 1..Len(columns) :
          sch[i].nullable \/ \A k \in 1..Len(columns[i]) : columns[i][k] # None

\* ------------------------------------------------------------ lines2batch
\* A Take that tests its count after polling: the poll made with n = 0 takes
\* an item from the inner iterator and drops it.
take_next_overpull(ls, n) ==
    IF ls = <<>> THEN [item |-> NoLine, lines |-> ls, n |-> IF n = 0 THEN n ELSE n - 1]
    ELSE IF n = 0 THEN [item |-> NoLine, lines |-> Tail(ls), n |-> n]
    ELSE [item |-> Head(ls), lines |-> Tail(ls), n |-> n - 1]

\* Take::next on (&mut self.lines).take(n): with n = 0 the inner iterator is
\* not polled; otherwise n is decremented and the inner iterator polled once.
\* An inner iterator that has run out of items returns None.
take_next(ls, n) ==
    IF n = 0 THEN [item |-> NoLine, lines |-> ls, n |-> n]
    ELSE IF ls = <<>> THEN [item |-> NoLine, lines |-> ls, n |-> n - 1]
    ELSE [item |-> Head(ls), lines |-> Tail(ls), n |-> n - 1]

\* The eight appends of lines 123-130, in program order.
AppendRow8(b, line, meta) ==
    append_gid(append_uid(append_len(append_nlink(append_mode(
        append_read_only(append_type(append_path(b, line), meta.file_type),
                         meta.read_only),
        Some(meta.mode)), Some(meta.nlink)), meta.len), Some(meta.uid)),
        Some(meta.gid))

\* The for loop with `continue` in place of `?`: a line that cannot be read
\* or resolved is skipped and the loop goes on.
RECURSIVE PullLoop_skip(_, _, _)
PullLoop_skip(ls, n, b) ==
    LET t == take_next(ls, n)
    IN  IF t.item.kind = "none" THEN [lines |-> t.lines, bldr |-> b, err |-> FALSE]
        ELSE IF t.item.kind = "err" THEN PullLoop_skip(t.lines, t.n, b)
        ELSE LET line == t.item.line
                 meta == path2meta(line)
             IN  IF ~meta.ok \/ ~meta.modified.ok THEN PullLoop_skip(t.lines, t.n, b)
                 ELSE PullLoop_skip(t.lines, t.n,
                                    append_mtime(AppendRow8(b, line, meta),
                                                 mtime_secs(meta.modified)))

\* The for loop reporting its first error only after the Take is drained:
\* the items after the failing one are still pulled from the line source.
RECURSIVE Drain(_, _)
Drain(ls, n) ==
    LET t == take_next(ls, n)
    IN  IF t.item.kind = "none" THEN t.lines ELSE Drain(t.lines, t.n)

RECURSIVE PullLoop_late(_, _, _)
PullLoop_late(ls, n, b) ==
    LET t == take_next(ls, n)
    IN  IF t.item.kind = "none" THEN [lines |-> t.lines, bldr |-> b, err |-> FALSE]
        ELSE IF t.item.kind = "err"
        THEN [lines |-> Drain(t.lines, t.n), bldr |-> b, err |-> TRUE]
        ELSE LET line == t.item.line
                 meta == path2meta(line)
             IN  IF ~meta.ok
                 THEN [lines |-> Drain(t.lines, t.n), bldr |-> b, err |-> TRUE]
                 ELSE LET b8 == AppendRow8(b, line, meta)
                      IN  IF ~meta.modified.ok
                          THEN [lines |-> Drain(t.lines, t.n), bldr |-> b8, err |-> TRUE]
                          ELSE PullLoop_late(t.lines, t.n,
                                             append_mtime(b8, mtime_secs(meta.modified)))

\* The for loop of lines2batch (lines 119-137): ends at the first None of
\* the Take, or returns early on the first `?` that sees an Err.
RECURSIVE PullLoop(_, _, _)
PullLoop(ls, n, b) ==
    LET t == take_next(ls, n)
    IN  IF t.item.kind = "none" THEN [lines |-> t.lines, bldr |-> b, err |-> FALSE]
        ELSE IF t.item.kind = "err" THEN [lines |-> t.lines, bldr |-> b, err |-> TRUE]
        ELSE LET line == t.item.line
                 meta == path2meta(line)
             IN  IF ~meta.ok THEN [lines |-> t.lines, bldr |-> b, err |-> TRUE]
                 ELSE LET b8 == AppendRow8(b, line, meta)
                      IN  IF ~meta.modified.ok
                          THEN [lines |-> t.lines, bldr |-> b8, err |-> TRUE]
                          ELSE PullLoop(t.lines, t.n,
                                        append_mtime(b8, mtime_secs(meta.modified)))

\* lines2batch(&mut taken, schema, &mut bldr): Err(e), Ok(None) or Ok(Some(r)).
\* finished tells whether the nine finish_* calls were reached, arrays what
\* they returned; checked tells whether bldr.is_empty() was evaluated, empty
\* what it returned and rows how many entries the path accumulator held then.
lines2batch(ls, n, sch, b) ==
    LET p == PullLoop(ls, n, b)
    IN  IF p.err
        THEN [lines |-> p.lines, bldr |-> p.bldr, tag |-> "Err",
              finished |-> FALSE, arrays |-> <<>>,
              checked |-> FALSE, empty |-> FALSE, rows |-> Len(p.bldr.path)]
        ELSE IF is_empty(p.bldr)
        THEN [lines |-> p.lines, bldr |-> p.bldr, tag |-> "None",
              finished |-> FALSE, arrays |-> <<>>,
              checked |-> TRUE, empty |-> TRUE, rows |-> Len(p.bldr.path)]
        ELSE LET arrays == FinishedArrays(p.bldr)
             IN  [lines |-> p.lines, bldr |-> FinishAll(p.bldr),
                  tag |-> IF try_new(sch, arrays) THEN "Some" ELSE "Err",
                  finished |-> TRUE, arrays |-> arrays,
                  checked |-> TRUE, empty |-> FALSE, rows |-> Len(p.bldr.path)]

\* ------------------------------------------------------------ the iterator
\* lines2batch_iter: the iterator starts with an empty Builder.  input
\* remembers the whole line source, results what every call of next
\* returned so far.
NewIter ==
    /\ input \in SeqsUpTo(Items, MaxLines)
    /\ lines = input
    /\ batch_size \in 0..MaxBatchSize
    /\ bldr = EmptyBuilder
    /\ results = <<>>

\* The iterator in the hands of any caller of the library, built for a unix
\* target (unix is cfg(unix)); nothing is written.
Init ==
    /\ NewIter
    /\ unix = TRUE
    /\ pc = "caller"
    /\ written = <<>>

\* What the caller of next() sees: Some(Ok(batch)), Some(Err(e)) or None.
\* taken counts the items the call took from the line source.
NextResult(r, before) ==
    [kind |-> CASE r.tag = "Err" -> "err" [] r.tag = "None" -> "none" [] OTHER -> "batch",
     batch |-> IF r.tag = "Some" THEN r.arrays ELSE <<>>,
     finished |-> r.finished,
     arrays |-> r.arrays,
     checked |-> r.checked,
     empty |-> r.empty,
     rows |-> r.rows,
     taken |-> Len(before) - Len(r.lines)]

\* Lines2BatchIter::next.  lines2batch, lines2batch_iter, Lines2BatchIter and
\* its Iterator impl are all #[cfg(unix)]: a build for another target has no
\* next() to call.
IterNext ==
    /\ unix
    /\ pc = "caller"
    /\ Len(results) < MaxCalls
    /\ LET r == lines2batch(lines, batch_size, schema, bldr)
       IN  /\ lines' = r.lines
           /\ bldr' = r.bldr
           /\ results' = Append(results, NextResult(r, lines))
    /\ UNCHANGED <<batch_size, input, unix, pc, written>>

Next == IterNext

Spec == Init /\ [][Next]_vars

\* The library built for any target: unix is whether cfg(unix) holds.  FileMeta's
\* mode, nlink, uid and gid exist only under cfg(unix), and so do lines2batch
\* and the iterator; no #[cfg(not(unix))] variant is defined.
PlatformInit ==
    /\ NewIter
    /\ unix \in BOOLEAN
    /\ pc = "caller"
    /\ written = <<>>

PlatformSpec == PlatformInit /\ [][Next]_vars

\* ---------------------------------------------------------------- main
\* What the StreamWriter has written to stdout, one entry per complete
\* message: the stream header (the schema), an encoded batch, the
\* end-of-stream marker.
Header == [kind |-> "header", batch |-> <<>>]

Encoded(batch) == [kind |-> "batch", batch |-> batch]

Eos == [kind |-> "eos", batch |-> <<>>]

\* main after Cli::parse: batch_size is any usize the command line gives,
\* the lines are those of stdin, nothing is written yet.
MainInit ==
    /\ NewIter
    /\ unix = TRUE
    /\ pc = "start"
    /\ written = <<>>

\* StreamWriter::try_new(io::stdout(), &schema)?: writes the header, or fails
\* and main returns the error.  Then lines2batch_iter(...)? builds the
\* iterator, which never fails.
MainOpen ==
    /\ pc = "start"
    /\ \E ok \in BOOLEAN :
          IF ok THEN written' = <<Header>> /\ pc' = "loop"
          ELSE written' = written /\ pc' = "failed"
    /\ UNCHANGED <<lines, batch_size, bldr, results, input, unix>>

\* The loop written over batch_iter.flatten(): an Err result is passed over
\* and the loop calls next() again.
LoopBranch_flatten(kind) ==
    CASE kind = "none" -> "finish"
      [] kind = "err" -> "loop"
      [] OTHER -> "write"

\* Where the body of `for rbat in batch_iter` goes for one result of next():
\* None leaves the loop, Err(e) returns from main through `?`, a batch is
\* handed to writer.write.
LoopBranch(kind) ==
    CASE kind = "none" -> "finish"
      [] kind = "err" -> "failed"
      [] OTHER -> "write"

\* One turn of the for loop: next(), then `let bat = rbat?` and
\* writer.write(&bat)?, which writes the encoded batch or fails.
MainStep ==
    /\ pc = "loop"
    /\ LET r == lines2batch(lines, batch_size, schema, bldr)
           res == NextResult(r, lines)
           branch == LoopBranch(res.kind)
       IN  /\ lines' = r.lines
           /\ bldr' = r.bldr
           /\ results' = Append(results, res)
           /\ IF branch = "write"
              THEN \E ok \in BOOLEAN :
                      IF ok THEN written' = Append(written, Encoded(res.batch)) /\ pc' = "loop"
                      ELSE written' = written /\ pc' = "failed"
              ELSE written' = written /\ pc' = branch
    /\ UNCHANGED <<batch_size, input, unix>>

\* writer.finish()?: writes the end-of-stream marker, or fails; then Ok(()).
MainFinish ==
    /\ pc = "finish"
    /\ \E ok \in BOOLEAN :
          IF ok THEN written' = Append(written, Eos) /\ pc' = "ok"
          ELSE written' = written /\ pc' = "failed"
    /\ UNCHANGED <<lines, batch_size, bldr, results, input, unix>>

MainNext == MainOpen \/ MainStep \/ MainFinish

MainSpec == MainInit /\ [][MainNext]_vars

\* ------------------------------------------------- the Builder on its own
\* The Builder is a public type with public append_*, finish_* and is_empty
\* operations: BuilderSpec drives it directly, one operation per step.
BuilderInit ==
    /\ input = <<>>
    /\ lines = <<>>
    /\ batch_size = 0
    /\ bldr = EmptyBuilder
    /\ results = <<>>
    /\ unix = TRUE
    /\ pc = "caller"
    /\ written = <<>>

Room(col) == Len(bldr[col]) < MaxEntries

Frame == UNCHANGED <<lines, batch_size, results, input, unix, pc, written>>

DoAppendPath == \E p \in {"", "a"} : Room("path") /\ bldr' = append_path(bldr, p) /\ Frame

DoAppendType == Room("file_type") /\ bldr' = append_type(bldr, "file") /\ Frame

DoAppendReadOnly == Room("read_only") /\ bldr' = append_read_only(bldr, FALSE) /\ Frame

DoAppendMode == Room("mode") /\ bldr' = append_mode(bldr, None) /\ Frame

DoAppendNlink == Room("nlink") /\ bldr' = append_nlink(bldr, Some(1)) /\ Frame

DoAppendLen == Room("len") /\ bldr' = append_len(bldr, 7) /\ Frame

DoAppendUid == Room("uid") /\ bldr' = append_uid(bldr, None) /\ Frame

DoAppendGid == Room("gid") /\ bldr' = append_gid(bldr, Some(100)) /\ Frame

DoAppendMtime == Room("mtime") /\ bldr' = append_mtime(bldr, None) /\ Frame

DoFinishPath == bldr' = finish_path(bldr) /\ Frame

DoFinishType == bldr' = finish_type(bldr) /\ Frame

DoFinishReadOnly == bldr' = finish_read_only(bldr) /\ Frame

DoFinishMode == bldr' = finish_mode(bldr) /\ Frame

DoFinishNlink == bldr' = finish_nlink(bldr) /\ Frame

DoFinishLen == bldr' = finish_len(bldr) /\ Frame

DoFinishUid == bldr' = finish_uid(bldr) /\ Frame

DoFinishGid == bldr' = finish_gid(bldr) /\ Frame

DoFinishMtime == bldr' = finish_mtime(bldr) /\ Frame

BuilderNext ==
    \/ DoAppendPath \/ DoAppendType \/ DoAppendReadOnly \/ DoAppendMode
    \/ DoAppendNlink \/ DoAppendLen \/ DoAppendUid \/ DoAppendGid \/ DoAppendMtime
    \/ DoFinishPath \/ DoFinishType \/ DoFinishReadOnly \/ DoFinishMode
    \/ DoFinishNlink \/ DoFinishLen \/ DoFinishUid \/ DoFinishGid \/ DoFinishMtime

BuilderSpec == BuilderInit /\ [][BuilderNext]_vars

\* ================================================================ claims
\* ------------------------------------------------------ shared vocabulary
Columns == {"path", "file_type", "read_only", "mode", "nlink", "len", "uid", "gid", "mtime"}

Last(s) == s[Len(s)]

\* The number of rows of a batch: the length of its first column.
NumRows(batch) == Len(batch[1])

\* Row k of a batch: its nine slots in schema order.
RowAt(batch, k) == [i \in 1..Len(batch) |-> batch[i][k]]

BatchRows(batch) == [k \in 1..NumRows(batch) |-> RowAt(batch, k)]

\* The rows of all batches among the first n results, in yield order.
RECURSIVE YieldedRows(_, _)
YieldedRows(rs, n) ==
    IF n = 0 THEN <<>>
    ELSE YieldedRows(rs, n - 1)
         \o (IF rs[n].kind = "batch" THEN BatchRows(rs[n].batch) ELSE <<>>)

\* The row the metadata of a line stands for.
RowOf(line) ==
    LET meta == path2meta(line)
    IN  << Some(line), Some(meta.file_type), Some(meta.read_only), Some(meta.mode),
           Some(meta.nlink), Some(meta.len), Some(meta.uid), Some(meta.gid),
           IF meta.modified.secs < 0 THEN None ELSE Some(meta.modified.secs) >>

ExpectedRows == [k \in 1..Len(input) |-> RowOf(input[k].line)]

\* A line that is read and whose metadata and modification time resolve.
Resolves(item) ==
    /\ item.kind = "line"
    /\ path2meta(item.line).ok
    /\ path2meta(item.line).modified.ok

\* A line that cannot be read, or whose metadata cannot be resolved.
Fails(item) == item.kind = "err" \/ (item.kind = "line" /\ ~path2meta(item.line).ok)

\* The input is a finite sequence of lines that all read and resolve.
ValidInput == \A k \in 1..Len(input) : Resolves(input[k])

\* The position in results of the first end of sequence (0: none so far).
FirstEnd ==
    IF \E i \in 1..Len(results) : results[i].kind = "none"
    THEN CHOOSE i \in 1..Len(results) :
            /\ results[i].kind = "none"
            /\ \A j \in 1..(i - 1) : results[j].kind # "none"
    ELSE 0

\* The number of items the calls before call i took from the line source.
RECURSIVE TakenBefore(_)
TakenBefore(i) == IF i <= 1 THEN 0 ELSE TakenBefore(i - 1) + results[i - 1].taken

\* The positions in input of the items call i took.
PulledBy(i) == (TakenBefore(i) + 1)..(TakenBefore(i) + results[i].taken)

IsPrefix(s, t) == Len(s) <= Len(t) /\ \A k \in 1..Len(s) : s[k] = t[k]

\* ---------------------------------------------------------------- C1
\* C1: for a finite input whose lines all read and resolve and batch_size >= 1,
\* the rows of the yielded batches, concatenated in yield order, are always a
\* prefix of the rows of the input lines in input order, and are exactly those
\* rows once next() has signalled end of sequence.
C1_RowsInOrder ==
    (ValidInput /\ batch_size >= 1) =>
        /\ IsPrefix(YieldedRows(results, Len(results)), ExpectedRows)
        /\ FirstEnd > 0 => YieldedRows(results, FirstEnd - 1) = ExpectedRows

C1_Witness ==
    /\ ValidInput /\ batch_size = 2 /\ Len(input) = 3
    /\ input[1] # input[2]
    /\ FirstEnd = 3
    /\ YieldedRows(results, 2) = ExpectedRows

\* ---------------------------------------------------------------- C2
\* C2: every yielded batch has between 1 and batch_size rows, and a batch of
\* fewer than batch_size rows is followed by no other batch.
C2_BatchSizes ==
    \A i \in 1..Len(results) :
        results[i].kind = "batch" =>
            /\ NumRows(results[i].batch) >= 1
            /\ NumRows(results[i].batch) <= batch_size
            /\ NumRows(results[i].batch) < batch_size =>
                  \A j \in (i + 1)..Len(results) : results[j].kind # "batch"

\* ---------------------------------------------------------------- C3
\* C3: whenever lines2batch finishes the columns to assemble a batch, the nine
\* finished arrays have the same length (so assembly finds no length mismatch).
C3_EqualColumns ==
    \A i \in 1..Len(results) :
        results[i].finished =>
            \A c \in 1..Len(results[i].arrays) :
                Len(results[i].arrays[c]) = Len(results[i].arrays[1])

\* ---------------------------------------------------------------- C4
\* C4: for N lines that all resolve and B = batch_size >= 1, the calls return
\* N div B batches of B rows, then one batch of N mod B rows when N mod B > 0,
\* then end of sequence: ceil(N / B) batches before the end.
C4_BatchCount ==
    (ValidInput /\ batch_size >= 1) =>
        LET N == Len(input)
            B == batch_size
        IN  \A i \in 1..Len(results) :
                IF i <= N \div B
                THEN results[i].kind = "batch" /\ NumRows(results[i].batch) = B
                ELSE IF i = (N \div B) + 1 /\ N % B > 0
                THEN results[i].kind = "batch" /\ NumRows(results[i].batch) = N % B
                ELSE results[i].kind = "none"

C4_Witness ==
    /\ ValidInput /\ batch_size = 2 /\ Len(input) = batch_size + 1
    /\ Len(results) = 3
    /\ NumRows(results[1].batch) = 2 /\ NumRows(results[2].batch) = 1
    /\ results[3].kind = "none"

\* ---------------------------------------------------------------- C5
\* C5: a call that pulled a line that cannot be read or resolved returns the
\* error and yields no batch, whatever it appended before.
C5_ErrorNoBatch ==
    \A i \in 1..Len(results) :
        (\E k \in PulledBy(i) : Fails(input[k])) =>
            results[i].kind = "err" /\ results[i].batch = <<>>

C5_Witness ==
    /\ Len(results) = 1
    /\ results[1].taken = 2
    /\ Resolves(input[1]) /\ Fails(input[2])
    /\ results[1].kind = "err"
    /\ Len(bldr.path) = 1

\* ---------------------------------------------------------------- C6
\* C6: a call that ends with an error leaves the Builder holding exactly the
\* rows it held when the call began.
C6_ErrorKeepsBuilder ==
    [][(results' # results /\ Last(results').kind = "err") => bldr' = bldr]_vars

\* ---------------------------------------------------------------- C7
\* C7: in a call that fails while deriving a row, no accumulator gains an entry
\* for the failing row: each gains one entry per row pulled before it.
C7_NoAppendForFailedRow ==
    [][(results' # results /\ Last(results').kind = "err" /\ ~Last(results').finished)
          => \A c \in Columns :
                Len(bldr'[c]) = Len(bldr[c]) + Last(results').taken - 1]_vars

\* ---------------------------------------------------------------- C8
\* C8: once a call has signalled end of sequence, every later call does too.
C8_EndIsPermanent ==
    \A i \in 1..Len(results) :
        results[i].kind = "none" =>
            \A j \in (i + 1)..Len(results) : results[j].kind = "none"

\* ---------------------------------------------------------------- C9
\* C9: is_empty() is true exactly when the path accumulator holds no entry
\* appended since it was last finished.
C9_IsEmptyIffNoRow == is_empty(bldr) <=> Len(bldr.path) = 0

\* ---------------------------------------------------------------- C10
\* C10: with batch_size = 0 every call signals end of sequence and takes no
\* item from the input: no batch, no error, the line source untouched.
C10_ZeroBatchSize ==
    batch_size = 0 =>
        /\ lines = input
        /\ \A i \in 1..Len(results) :
              results[i].kind = "none" /\ results[i].taken = 0

C10_Witness ==
    /\ batch_size = 0
    /\ Len(input) >= 2 /\ Resolves(input[1])
    /\ Len(results) >= 2
    /\ results[1].kind = "none"

\* ---------------------------------------------------------------- C11
\* The items call i took that were lines or read errors (a poll that
\* returned None took no line).
ItemsPulled(i) == Cardinality({k \in PulledBy(i) : input[k].kind # "none"})

\* The line source returned None to a poll of call i: the call took a None
\* of the source, or polled it with nothing left.
RanOut(i) ==
    \/ \E k \in PulledBy(i) : input[k].kind = "none"
    \/ /\ TakenBefore(i) + results[i].taken = Len(input)
       /\ ItemsPulled(i) < batch_size

\* C11: the line source is consumed once, left to right, never rewound: what is
\* left of it is always the input after the items taken so far; each call
\* takes at most batch_size items; and a call that yields a batch after
\* pulling fewer than batch_size items saw the source run out.
C11_ConsumedOnce ==
    /\ TakenBefore(Len(results) + 1) <= Len(input)
    /\ lines = SubSeq(input, TakenBefore(Len(results) + 1) + 1, Len(input))
    /\ \A i \in 1..Len(results) :
          /\ results[i].taken <= batch_size
          /\ (results[i].kind = "batch" /\ ItemsPulled(i) < batch_size) => RanOut(i)

C11_Witness ==
    /\ batch_size = 2 /\ Len(input) = 3 /\ ValidInput
    /\ Len(results) = 2
    /\ results[2].kind = "batch" /\ ItemsPulled(2) = 1 /\ RanOut(2)
    /\ lines = <<>>

\* ---------------------------------------------------------------- C12
\* The batches the iterator yielded among its first n results, in order.
RECURSIVE YieldedBatches(_, _)
YieldedBatches(rs, n) ==
    IF n = 0 THEN <<>>
    ELSE YieldedBatches(rs, n - 1)
         \o (IF rs[n].kind = "batch" THEN <<rs[n].batch>> ELSE <<>>)

\* The batches written so far, in order.
RECURSIVE WrittenBatches(_, _)
WrittenBatches(w, n) ==
    IF n = 0 THEN <<>>
    ELSE WrittenBatches(w, n - 1)
         \o (IF w[n].kind = "batch" THEN <<w[n].batch>> ELSE <<>>)

HasEos == \E i \in 1..Len(written) : written[i].kind = "eos"

HasErr == \E i \in 1..Len(results) : results[i].kind = "err"

\* C12: main writes the header once, first; then one encoded batch per batch the
\* iterator yielded, in yield order; the end-of-stream marker last and only
\* after the iterator signalled end of sequence; an error from the iterator is
\* its last result, ends main with the error, leaves the batches written
\* before it in place and no end-of-stream marker.
C12_StreamProtocol ==
    /\ pc = "start" => written = <<>>
    /\ pc \in {"loop", "finish", "ok"} => written # <<>>
    /\ \A i \in 1..Len(written) :
          /\ written[i].kind = "header" <=> i = 1
          /\ written[i].kind = "eos" => i = Len(written)
    /\ IsPrefix(WrittenBatches(written, Len(written)),
                YieldedBatches(results, Len(results)))
    /\ pc \in {"loop", "finish", "ok"} =>
          WrittenBatches(written, Len(written)) = YieldedBatches(results, Len(results))
    /\ HasEos <=> pc = "ok"
    /\ HasEos => Last(results).kind = "none"
    /\ HasErr =>
          /\ Last(results).kind = "err"
          /\ \A i \in 1..(Len(results) - 1) : results[i].kind = "batch"
          /\ pc = "failed"
          /\ ~HasEos
          /\ WrittenBatches(written, Len(written)) = YieldedBatches(results, Len(results))

C12_Witness ==
    /\ pc = "failed" /\ HasErr
    /\ Len(results) = 2 /\ results[1].kind = "batch"
    /\ written = <<Header, Encoded(results[1].batch)>>

C12_WitnessOk ==
    /\ pc = "ok"
    /\ Len(results) = 3
    /\ written = <<Header, Encoded(results[1].batch), Encoded(results[2].batch), Eos>>

\* ---------------------------------------------------------------- C13
\* The positions in the schema of the platform-dependent columns mode, nlink,
\* uid, gid, and of the columns path, type, read_only, len.
ExtendedColumns == {i \in 1..Len(schema) : schema[i].name \in {"mode", "nlink", "uid", "gid"}}

PlainColumns == {i \in 1..Len(schema) : schema[i].name \in {"path", "type", "read_only", "len"}}

\* C13: on a target without the mode/nlink/uid/gid concepts (cfg(unix) false) the
\* iterator can still be called and its batches hold null in those four
\* columns and values in path, type, read_only, len; on a unix target the four
\* columns hold a value in every row.
C13_PlatformColumns ==
    /\ (~unix /\ results = <<>>) => ENABLED IterNext
    /\ \A i \in 1..Len(results) :
          results[i].kind = "batch" =>
              \A k \in 1..NumRows(results[i].batch) :
                  /\ \A c \in ExtendedColumns :
                        (results[i].batch[c][k] = None) <=> ~unix
                  /\ \A c \in PlainColumns : results[i].batch[c][k] # None

\* The half of C13 about unix targets, which the code does satisfy.
C13_UnixColumns ==
    unix => \A i \in 1..Len(results) :
                results[i].kind = "batch" =>
                    \A k \in 1..NumRows(results[i].batch) :
                        \A c \in ExtendedColumns \cup PlainColumns :
                            results[i].batch[c][k] # None

\* ---------------------------------------------------------------- C14
\* A modification time before the epoch: its whole seconds are negative (the
\* nanoseconds count forward from them).
Predates(t) == t.secs < 0

\* C14: in every row of every batch the mtime is null when the file of the row
\* was modified before the epoch, and otherwise the whole seconds from the epoch
\* to its modification time, which are not negative; and no accumulator entry
\* for mtime is ever a negative number.
C14_MtimeNonNegative ==
    /\ \A i \in 1..Len(results) :
          results[i].kind = "batch" =>
              \A k \in 1..NumRows(results[i].batch) :
                  LET t == path2meta(results[i].batch[1][k][1]).modified
                      v == results[i].batch[9][k]
                  IN  /\ Predates(t) <=> v = None
                      /\ ~Predates(t) => v = Some(t.secs) /\ t.secs >= 0
    /\ \A k \in 1..Len(bldr.mtime) : bldr.mtime[k] # None => bldr.mtime[k][1] >= 0

C14_Witness ==
    /\ Len(results) = 1 /\ results[1].kind = "batch"
    /\ results[1].batch[1] = <<Some("b"), Some("e")>>
    /\ results[1].batch[9] = <<None, Some(0)>>

\* ---------------------------------------------------------------- C15
\* An item whose processing fails: the line cannot be read, its metadata
\* cannot be resolved, or its modification time cannot be read.
FailsRow(item) ==
    \/ Fails(item)
    \/ item.kind = "line" /\ path2meta(item.line).ok /\ ~path2meta(item.line).modified.ok

\* C15: when the k-th item a call pulls fails, the call takes exactly k items
\* from the line source: the failing item is the last one it takes.
C15_ErrorStopsPull ==
    \A i \in 1..Len(results) :
        \A k \in PulledBy(i) :
            FailsRow(input[k]) => results[i].taken = k - TakenBefore(i)

C15_Witness ==
    /\ batch_size = 2 /\ Len(input) = 3
    /\ Fails(input[1]) /\ Resolves(input[2])
    /\ Len(results) = 1 /\ results[1].kind = "err" /\ results[1].taken = 1
    /\ lines = Tail(input)

\* ---------------------------------------------------------------- C16
\* The rows of the lines among input[lo..hi], in order.
RECURSIVE RowsOfRange(_, _)
RowsOfRange(lo, hi) ==
    IF hi < lo THEN <<>>
    ELSE RowsOfRange(lo, hi - 1)
         \o (IF input[hi].kind = "line" THEN <<RowOf(input[hi].line)>> ELSE <<>>)

\* C16: right after a call that yielded a batch the Builder is as it was at
\* construction, all nine accumulators without entries and is_empty() true; and
\* a batch yielded by the first call, or by the call after one that yielded a
\* batch, holds exactly the rows of the lines that call pulled; so the batches
\* never hold more rows than lines were pulled so far.
C16_FinishResets ==
    /\ Len(YieldedRows(results, Len(results)))
          <= Len(RowsOfRange(1, TakenBefore(Len(results) + 1)))
    /\ (results # <<>> /\ Last(results).kind = "batch") =>
          /\ bldr = EmptyBuilder
          /\ \A c \in Columns : Len(bldr[c]) = 0
          /\ is_empty(bldr)
    /\ \A j \in 1..Len(results) :
          (results[j].kind = "batch" /\ (j = 1 \/ results[j - 1].kind = "batch")) =>
              BatchRows(results[j].batch)
                  = RowsOfRange(TakenBefore(j) + 1, TakenBefore(j) + results[j].taken)

C16_Witness ==
    /\ batch_size = 2 /\ Len(input) = 4 /\ ValidInput
    /\ Len(results) = 2
    /\ results[1].kind = "batch" /\ results[2].kind = "batch"
    /\ BatchRows(results[2].batch) = <<RowOf(input[3].line), RowOf(input[4].line)>>
    /\ bldr = EmptyBuilder

\* ---------------------------------------------------------------- C17
\* The value the field called name has for the file at line.
FieldValue(name, line) ==
    LET meta == path2meta(line)
    IN  CASE name = "path" -> Some(line)
          [] name = "type" -> Some(meta.file_type)
          [] name = "read_only" -> Some(meta.read_only)
          [] name = "mode" -> Some(meta.mode)
          [] name = "nlink" -> Some(meta.nlink)
          [] name = "len" -> Some(meta.len)
          [] name = "uid" -> Some(meta.uid)
          [] name = "gid" -> Some(meta.gid)
          [] name = "mtime" -> IF meta.modified.secs < 0 THEN None
                               ELSE Some(meta.modified.secs)

\* C17: every yielded batch has one column per field of the schema, nine in the
\* order path, type, read_only, mode, nlink, len, uid, gid, mtime; column i
\* holds, row by row, the values of the schema's i-th field for the row's
\* path; and the columns of the non-nullable fields hold no null.
C17_SchemaConformance ==
    /\ [i \in 1..Len(schema) |-> schema[i].name]
          = <<"path", "type", "read_only", "mode", "nlink", "len", "uid", "gid", "mtime">>
    /\ {schema[i].name : i \in {j \in 1..Len(schema) : ~schema[j].nullable}}
          = {"path", "type", "read_only", "len"}
    /\ \A r \in 1..Len(results) :
          results[r].kind = "batch" =>
              /\ Len(results[r].batch) = Len(schema)
              /\ \A i \in 1..Len(schema) :
                    /\ Len(results[r].batch[i]) = NumRows(results[r].batch)
                    /\ \A k \in 1..NumRows(results[r].batch) :
                          /\ results[r].batch[i][k]
                                = FieldValue(schema[i].name, results[r].batch[1][k][1])
                          /\ ~schema[i].nullable => results[r].batch[i][k] # None

C17_Witness ==
    /\ Len(results) = 1 /\ results[1].kind = "batch"
    /\ results[1].batch =
          << <<Some("a")>>, <<Some("file")>>, <<Some(FALSE)>>, <<Some(420)>>, <<Some(1)>>,
             <<Some(7)>>, <<Some(1000)>>, <<Some(100)>>, <<Some(5)>> >>

\* ---------------------------------------------------------------- C18
\* C18: (the empty path never resolves: path2meta("") is an error.)  Whenever
\* lines2batch evaluates bldr.is_empty(), the answer is true exactly when the
\* path accumulator holds no entry; so a call that signals end of sequence
\* pulled no line and leaves no row in the Builder.
C18_IsEmptyAgrees ==
    /\ ~path2meta("").ok
    /\ \A i \in 1..Len(results) :
          /\ results[i].checked => (results[i].empty <=> results[i].rows = 0)
          /\ results[i].kind = "none" =>
                /\ results[i].checked /\ results[i].rows = 0
                /\ \A k \in PulledBy(i) : input[k].kind # "line"
    /\ (results # <<>> /\ Last(results).kind = "none") => Len(bldr.path) = 0

C18_Witness ==
    /\ Len(results) = 3
    /\ results[1].kind = "err" /\ results[1].taken = 1 /\ input[1] = OkLine("")
    /\ results[2].checked /\ ~results[2].empty /\ results[2].rows = 2
    /\ results[3].checked /\ results[3].empty /\ results[3].rows = 0

\* ---------------------------------------------------------------- C19
\* The line source is a finite sequence: it returns its items one after the
\* other and None only when none is left.
FiniteInput == \A k \in 1..Len(input) : input[k].kind # "none"

\* C19: for a finite input of N items and batch_size B >= 1, at most ceil(N / B)
\* calls in a row yield a batch: the call after them, at the latest call
\* ceil(N / B) + 1, returns end of sequence or an error.
C19_Terminates ==
    (FiniteInput /\ batch_size >= 1) =>
        \A i \in 1..Len(results) :
            (\A j \in 1..i : results[j].kind = "batch") =>
                i <= (Len(input) + batch_size - 1) \div batch_size

C19_Witness ==
    /\ FiniteInput /\ batch_size = 1 /\ Len(input) = MaxLines
    /\ Len(results) = Len(input) + 1
    /\ \A j \in 1..Len(input) : results[j].kind = "batch"
    /\ Last(results).kind = "none"

====
